---- MODULE Spec2Model ----
(***************************************************************************)
(* Coronal-hole tracking data structure CoronalHoleDB                      *)
(* (src/analysis/ml_analysis/ch_tracking/ch_db.py).                        *)
(*                                                                         *)
(* Python object references are modelled by a heap: every Contour object   *)
(* ever constructed has a handle 1..nobj, heap[h] holds its fields, and    *)
(* frames and the registry ch_dict hold handles.  Python list indices are  *)
(* 0-based; the sequences here are 1-based, ids are 0-based as in the code.*)
(***************************************************************************)
EXTENDS Integers, Sequences, FiniteSets, TLC

\* ------------------------------------------------------------------ bounds
\* largest number of raw contours cv2.findContours returns for one raster
MaxContours == 2
\* centroid pixel coordinates range over 0..MaxX (columns)
MaxX == 1
\* number of rasters the driver ingests
MaxFrames == 3
\* number of Contour objects constructed over the whole run
MaxObjects == 4

\* largest number of non-zero pixels of a raster given to the projector
MaxLit == 2

\* ------------------------------------------------------- program constants
\* coronal hole area threshold (class attribute)
AreaThreshold == 50

\* centroid row sampled (pixel row coordinate)
CentroidRows == {0}
Centroids == (0..MaxX) \X CentroidRows
\* contour areas sampled around the area threshold
AreaSamples == {AreaThreshold, AreaThreshold + 1}

\* np.random.randint(low, high): low inclusive, high exclusive
ColorLow == 0
ColorHigh == 255
\* colour triples sampled; generate_ch_color keeps those randint can return
CandidateColors == {<<0, 0, 0>>, <<254, 254, 254>>, <<255, 255, 255>>}

\* pixel rows of the canvas; its columns run one past the last centroid column
CanvasRows == {0}
Canvas == (0..(MaxX + 1)) \X CanvasRows
\* the background fill_contours starts from: np.ones(...) * 255
Background == <<255, 255, 255>>
\* the filled interior of the sampled contour with centroid c: the centroid
\* pixel and its right neighbour, clipped to the canvas as drawContours does
Interior(c) == {c, <<c[1] + 1, c[2]>>} \cap Canvas
\* Contour.contour_pixels before the first feature update
NoPixels == {}

\* Contour.id and Contour.color before the tracker assigns them
NoId == -1
NoColor == <<>>
\* the value None of a frame holder p1..p5
None == [num |-> 0, contour_list |-> <<>>]

VARIABLES
    heap,        \* handle -> Contour fields [centroid, contour, id, color,
                 \*                            contour_pixels]
    image,       \* the canvas last returned by fill_contours
    nobj,        \* number of Contour objects constructed (contours seen)
    ch_dict,     \* self.ch_dict : id -> Contour handle
    id_list,     \* self.id_list : set of ids
    frame_num,   \* self.frame_num
    p1, p2, p3, p4, p5,   \* recent frame holders
    pc,          \* driver position: "ready" (ids assigned / nothing ingested),
                 \* "extracted", "filled", "featured", "fault"
    ingested,    \* number of rasters passed to find_contours
    issued,      \* ids handed out by add_new_coronal_hole, in call order
    queue,       \* local queue of the last match_coronal_holes pass
    index_list,  \* local index_list of the last identity-assignment pass
    retired,     \* issued ids that were absent from p1 after some pass
    raster,      \* the raster handed to the projector
    projected,   \* result of map_new_polar_projection(raster)
    restored,    \* result of map_back_to_long_lat_rbg(projected)
    used,        \* the (row, column) indices the last projector call used
    ppc          \* projector position: "input", "projected", "restored",
                 \* "fault"

vars == <<heap, image, nobj, ch_dict, id_list, frame_num, p1, p2, p3, p4, p5, pc,
          ingested, issued, queue, index_list, retired,
          raster, projected, restored, used, ppc>>

trackervars == <<heap, image, nobj, ch_dict, id_list, frame_num, p1, p2, p3, p4,
                 p5, pc, ingested, issued, queue, index_list, retired>>
projvars == <<raster, projected, restored, used, ppc>>

\* ---------------------------------------------------- projector numerics
\* Angles and trigonometric values are fixed-point numbers with three
\* decimals: the integer v stands for v / Scale.
Scale == 10 * 10 * 10
\* np.pi
Pi == 3142
\* shape of the rasters projected: n_t, n_p = np.shape(gray_image)
n_t == 4
n_p == 4
Pixels == (0..(n_t - 1)) \X (0..(n_p - 1))

mul(a, b) == (a * b) \div Scale
abs(a) == IF a < 0 THEN -a ELSE a
\* int(a / b): the quotient truncated toward zero
int_div(a, b) ==
    IF (a >= 0) = (b > 0) THEN abs(a) \div abs(b) ELSE -(abs(a) \div abs(b))

\* np.sin on [0, pi/2] by its Taylor polynomial up to the 9th power
sin_q(a) ==
    LET a2 == mul(a, a)
        a3 == mul(a2, a)
        a5 == mul(a3, a2)
        a7 == mul(a5, a2)
        a9 == mul(a7, a2)
    IN a - (a3 \div 6) + (a5 \div 120) - (a7 \div 5040) + (a9 \div 362880)

\* np.sin
sin(a) ==
    LET r == a % (2 * Pi)
    IN IF r <= Pi \div 2 THEN sin_q(r)
       ELSE IF r <= Pi THEN sin_q(Pi - r)
       ELSE IF r <= Pi + Pi \div 2 THEN -sin_q(r - Pi)
       ELSE -sin_q(2 * Pi - r)

\* np.cos
cos(a) == sin(a + Pi \div 2)

\* np.arccos: the angle in [0, pi] with the given cosine, by bisection
RECURSIVE arccos_between(_, _, _)
arccos_between(lo, hi, x) ==
    IF hi - lo <= 1 THEN (IF abs(cos(lo) - x) <= abs(cos(hi) - x) THEN lo ELSE hi)
    ELSE LET mid == (lo + hi) \div 2
         IN IF cos(mid) > x THEN arccos_between(mid, hi, x)
            ELSE arccos_between(lo, mid, x)

arccos(x) == arccos_between(0, Pi, x)

\* np.arctan2(y, x) for y >= 0: the angle a in [0, pi] of the vector (x, y),
\* by bisection on the sign of cos(a) * y - sin(a) * x
RECURSIVE arctan2_between(_, _, _, _)
arctan2_between(lo, hi, y, x) ==
    IF hi - lo <= 1 THEN lo
    ELSE LET mid == (lo + hi) \div 2
         IN IF mul(cos(mid), y) - mul(sin(mid), x) > 0
            THEN arctan2_between(mid, hi, y, x)
            ELSE arctan2_between(lo, mid, y, x)

\* np.arctan2(y, x), in [-pi, pi]
arctan2(y, x) ==
    IF y >= 0 THEN arctan2_between(0, Pi, y, x)
    ELSE -arctan2_between(0, Pi, -y, x)

\* np.linspace(a, b, n)[i]
linspace(a, b, n, i) == a + ((b - a) * i) \div (n - 1)

\* theta = np.linspace(np.pi, 0, n_t) ; phi = np.linspace(0, 2 * np.pi, n_p)
theta(i) == linspace(Pi, 0, n_t, i)
phi(j) == linspace(0, 2 * Pi, n_p, j)
\* spacing in theta and phi
delta_t == theta(1) - theta(0)
delta_p == phi(1) - phi(0)

\* phi_grid[neg_phi] = phi_grid[neg_phi] + 2 * np.pi
to_0_2pi(a) == IF a < 0 THEN a + 2 * Pi ELSE a

\* map_new_polar_projection: theta_grid and phi_grid
theta_grid_new(ii, jj) == arccos(mul(sin(theta(ii)), sin(phi(jj))))
phi_grid_new(ii, jj) ==
    to_0_2pi(arctan2(-cos(theta(ii)), mul(sin(theta(ii)), cos(phi(jj)))))

\* map_back_to_long_lat_rbg: theta_grid and phi_grid
theta_grid_back(ii, jj) == arccos(mul(-sin(theta(ii)), sin(phi(jj))))
phi_grid_back(ii, jj) ==
    to_0_2pi(arctan2(cos(theta(ii)), mul(sin(theta(ii)), cos(phi(jj)))))

\* the index pair each output pixel reads:
\* [int(np.abs(theta_grid[ii, jj]) / delta_t), int(phi_grid[ii, jj] / delta_p)]
index_new == [px \in Pixels |->
    <<int_div(abs(theta_grid_new(px[1], px[2])), delta_t),
      int_div(phi_grid_new(px[1], px[2]), delta_p)>>]
index_back == [px \in Pixels |->
    <<int_div(abs(theta_grid_back(px[1], px[2])), delta_t),
      int_div(phi_grid_back(px[1], px[2]), delta_p)>>]

\* Python indexing a[r, c]: a negative index counts from the end, an index
\* outside -n..n-1 raises IndexError
in_range(r, n) == r >= -n /\ r <= n - 1
wrap(r, n) == IF r < 0 THEN r + n ELSE r
getitem(img, rc) == img[<<wrap(rc[1], n_t), wrap(rc[2], n_p)>>]
all_in_range(index) ==
    \A px \in DOMAIN index : in_range(index[px][1], n_t) /\ in_range(index[px][2], n_p)

\* the loop over ii, jj and the final astype(np.uint8)
resample(img, index) == [px \in Pixels |-> getitem(img, index[px]) % 256]

\* ------------------------------------------------------------ pure helpers
Range(s) == {s[i] : i \in 1..Len(s)}

Min(a, b) == IF a <= b THEN a ELSE b

SeqsUpTo(S, n) == UNION {[1..k -> S] : k \in 0..n}

\* an array holding its computed elements: the same sequence as s
ndarray(s) == s \o <<>>

\* generate_ch_color with the upper bound taken as inclusive
generate_ch_color_inclusive ==
    {c \in CandidateColors : \A k \in 1..3 : c[k] >= ColorLow /\ c[k] <= ColorHigh}

\* generate_ch_color: the set of colours the generator can return
generate_ch_color ==
    {c \in CandidateColors : \A k \in 1..3 : c[k] >= ColorLow /\ c[k] < ColorHigh}

\* Frame.centroid_list
centroid_list(h, f) ==
    ndarray([i \in 1..Len(f.contour_list) |-> h[f.contour_list[i]].centroid])

\* scipy cdist(XA, XB), Euclidean metric.  The matrix holds squared
\* distances: argsort/argmin/min only use the order, which squaring keeps.
cdist(XA, XB) ==
    ndarray([i \in 1..Len(XA) |-> ndarray([j \in 1..Len(XB) |->
        (XA[i][1] - XB[j][1]) * (XA[i][1] - XB[j][1])
      + (XA[i][2] - XB[j][2]) * (XA[i][2] - XB[j][2])])])

\* compute_distance raises ValueError when either centroid list is empty
\* (cdist needs 2-dimensional inputs; min over an empty axis has no identity)
compute_distance_faults(f1, f2) ==
    Len(f1.contour_list) = 0 \/ Len(f2.contour_list) = 0

compute_distance(h, f1, f2) == cdist(centroid_list(h, f1), centroid_list(h, f2))

\* distance.min(axis=1)
min_axis1(d) == ndarray([i \in 1..Len(d) |->
    CHOOSE m \in Range(d[i]) : \A x \in Range(d[i]) : m <= x])

\* distance.argmin(axis=1): first column holding the row minimum
argmin_axis1(d) == ndarray([i \in 1..Len(d) |->
    CHOOSE j \in 1..Len(d[i]) :
        /\ \A k \in 1..Len(d[i]) : d[i][j] <= d[i][k]
        /\ \A k \in 1..(j - 1) : d[i][k] > d[i][j]])

\* ndarray.argsort(): ascending; arrays this short are insertion-sorted, so
\* equal keys keep their index order
argsort(v) ==
    LET rank(i) == Cardinality({j \in 1..Len(v) :
                        v[j] < v[i] \/ (v[j] = v[i] /\ j < i)}) + 1
    IN ndarray([k \in 1..Len(v) |-> CHOOSE i \in 1..Len(v) : rank(i) = k])

\* create_priority_queue with the argsort dropped: rows stay in index order
create_priority_queue_unsorted(h, f1, f2) ==
    LET distance == compute_distance(h, f1, f2)
        cols == argmin_axis1(distance)
    IN ndarray([k \in 1..Len(cols) |-> <<k, cols[k]>>])

\* argmin that prefers, among equally near columns, the one whose contour
\* has the brightest color instead of the first
argmin_axis1_by_color(h, f2, d) == ndarray([i \in 1..Len(d) |->
    CHOOSE j \in 1..Len(d[i]) :
        /\ \A k \in 1..Len(d[i]) : d[i][j] <= d[i][k]
        /\ \A k \in (1..Len(d[i])) \ {j} :
              d[i][k] = d[i][j] =>
                  \/ h[f2.contour_list[k]].color[1] < h[f2.contour_list[j]].color[1]
                  \/ /\ h[f2.contour_list[k]].color[1] = h[f2.contour_list[j]].color[1]
                     /\ j < k])

\* create_priority_queue whose column choice looks at the colors
create_priority_queue_by_color(h, f1, f2) ==
    LET distance == compute_distance(h, f1, f2)
        rows == argsort(min_axis1(distance))
        cols == argmin_axis1_by_color(h, f2, distance)
    IN ndarray([k \in 1..Len(rows) |-> <<rows[k], cols[rows[k]]>>])

\* create_priority_queue: [(new_index, old_index)], closest pairs first
create_priority_queue(h, f1, f2) ==
    LET distance == compute_distance(h, f1, f2)
        rows == argsort(min_axis1(distance))
        cols == argmin_axis1(distance)
    IN ndarray([k \in 1..Len(rows) |-> <<rows[k], cols[rows[k]]>>])

\* duplicate removal that hands a displaced row the first unclaimed column
RECURSIVE reassign_duplicates(_, _, _)
reassign_duplicates(q, claimed, ncols) ==
    IF q = <<>> THEN <<>>
    ELSE LET a == Head(q)[1]
             b == Head(q)[2]
             free == (1..ncols) \ claimed
         IN IF b \notin claimed
            THEN <<Head(q)>> \o reassign_duplicates(Tail(q), claimed \cup {b}, ncols)
            ELSE IF free = {} THEN reassign_duplicates(Tail(q), claimed, ncols)
            ELSE LET c == CHOOSE x \in free : \A y \in free : x <= y
                 IN <<(<<a, c>>)>> \o reassign_duplicates(Tail(q), claimed \cup {c}, ncols)

priority_queue_reassign_duplicates(h, f1, f2) ==
    reassign_duplicates(create_priority_queue(h, f1, f2), {}, Len(f2.contour_list))

\* priority_queue_remove_duplicates with a distance cutoff: a pair whose
\* centroids do not coincide is dropped as well
priority_queue_with_cutoff(h, f1, f2) ==
    LET q == create_priority_queue(h, f1, f2)
        d == compute_distance(h, f1, f2)
        kept == SelectSeq([i \in 1..Len(q) |-> <<i, q[i]>>],
                 LAMBDA e : /\ d[e[2][1]][e[2][2]] = 0
                            /\ ~ \E k \in 1..(e[1] - 1) : q[k][2] = e[2][2])
    IN ndarray([k \in 1..Len(kept) |-> kept[k][2]])

\* priority_queue_remove_duplicates with the duplicate filter dropped
priority_queue_keep_duplicates(h, f1, f2) == create_priority_queue(h, f1, f2)

\* priority_queue_remove_duplicates: keep a pair unless an earlier pair of
\* the queue has the same old_index
priority_queue_remove_duplicates(h, f1, f2) ==
    LET q == create_priority_queue(h, f1, f2)
        kept == SelectSeq([i \in 1..Len(q) |-> <<i, q[i]>>],
                 LAMBDA e : ~ \E k \in 1..(e[1] - 1) : q[k][2] = e[2][2])
    IN ndarray([k \in 1..Len(kept) |-> kept[k][2]])

\* ------------------------------------------------------- registry updates
\* The mutable tracker state threaded through a pass:
\* db = [heap, ch_dict, id_list, issued]

\* add_coronal_hole with the id_list.add(ch.id) dropped
add_coronal_hole_no_id(db, ch) ==
    LET i == db.heap[ch].id
    IN [db EXCEPT !.ch_dict = [k \in DOMAIN db.ch_dict \cup {i} |->
                                  IF k = i THEN ch ELSE db.ch_dict[k]]]

\* add_coronal_hole: ch_dict[ch.id] = ch ; id_list.add(ch.id)
add_coronal_hole(db, ch) ==
    LET i == db.heap[ch].id
    IN [db EXCEPT !.ch_dict = [k \in DOMAIN db.ch_dict \cup {i} |->
                                  IF k = i THEN ch ELSE db.ch_dict[k]],
                  !.id_list = db.id_list \cup {i}]

\* add_new_coronal_hole numbering from one: ch.id = len(id_list) + 1
add_new_coronal_hole_from_one(db, ch, color) ==
    LET i == Cardinality(db.id_list) + 1
        d1 == [db EXCEPT !.heap[ch].id = i,
                         !.heap[ch].color = color,
                         !.issued = Append(db.issued, i)]
    IN add_coronal_hole(d1, ch)

\* add_new_coronal_hole: ch.id = len(id_list); ch.color = generate_ch_color()
add_new_coronal_hole(db, ch, color) ==
    LET i == Cardinality(db.id_list)
        d1 == [db EXCEPT !.heap[ch].id = i,
                         !.heap[ch].color = color,
                         !.issued = Append(db.issued, i)]
    IN add_coronal_hole(d1, ch)

\* for ch in <list>: add_new_coronal_hole(ch), colours[k] drawn for the k-th
RECURSIVE add_new_all(_, _, _)
add_new_all(db, chs, colours) ==
    IF chs = <<>> THEN db
    ELSE add_new_all(add_new_coronal_hole(db, Head(chs), Head(colours)),
                     Tail(chs), Tail(colours))

\* the match loop copying the id only, the color assignment dropped
RECURSIVE set_matches_id_only(_, _, _, _)
set_matches_id_only(h, f1, f2, q) ==
    IF q = <<>> THEN h
    ELSE LET new == f1.contour_list[Head(q)[1]]
             old == f2.contour_list[Head(q)[2]]
             h1 == [h EXCEPT ![new].id = h[old].id]
         IN set_matches_id_only(h1, f1, f2, Tail(q))

\* the match loop with the assignments reversed: the p2 contour is written
RECURSIVE set_matches_into_old(_, _, _, _)
set_matches_into_old(h, f1, f2, q) ==
    IF q = <<>> THEN h
    ELSE LET new == f1.contour_list[Head(q)[1]]
             old == f2.contour_list[Head(q)[2]]
             h1 == [h EXCEPT ![old].id = h[new].id]
             h2 == [h1 EXCEPT ![old].color = h1[new].color]
         IN set_matches_into_old(h2, f1, f2, Tail(q))

\* for new_index, old_index in queue: copy id and color from p2 to p1
RECURSIVE set_matches(_, _, _, _)
set_matches(h, f1, f2, q) ==
    IF q = <<>> THEN h
    ELSE LET new == f1.contour_list[Head(q)[1]]
             old == f2.contour_list[Head(q)[2]]
             h1 == [h EXCEPT ![new].id = h[old].id]
             h2 == [h1 EXCEPT ![new].color = h1[old].color]
         IN set_matches(h2, f1, f2, Tail(q))

\* np.delete keyed on the old index: [b for a, b in queue]
unmatched_indices_by_old(n, q) ==
    SelectSeq([i \in 1..n |-> i], LAMBDA i : ~ \E k \in 1..Len(q) : q[k][2] = i)

\* np.delete(np.arange(0, len(contour_list)), [a for a, b in queue])
unmatched_indices(n, q) ==
    SelectSeq([i \in 1..n |-> i], LAMBDA i : ~ \E k \in 1..Len(q) : q[k][1] = i)

TheDb == [heap |-> heap, ch_dict |-> ch_dict, id_list |-> id_list, issued |-> issued]

\* ---------------------------------------------------------------- actions
Init ==
    /\ heap = <<>>
    /\ image = [px \in Canvas |-> Background]
    /\ nobj = 0
    /\ ch_dict = <<>>
    /\ id_list = {}
    /\ frame_num = 0
    /\ p1 = None /\ p2 = None /\ p3 = None /\ p4 = None /\ p5 = None
    /\ pc = "ready"
    /\ ingested = 0
    /\ issued = <<>>
    /\ queue = <<>>
    /\ index_list = <<>>
    /\ retired = {}
    /\ raster = [px \in Pixels |-> 0]
    /\ projected = [px \in Pixels |-> 0]
    /\ restored = [px \in Pixels |-> 0]
    /\ used = {}
    /\ ppc = "input"

\* the ids carried by the contours of a frame
IdsOf(h, f) == {h[f.contour_list[i]].id : i \in 1..Len(f.contour_list)}

\* update_previous_frames leaving every holder as it was
update_previous_frames_noop(ch) ==
    UNCHANGED <<p1, p2, p3, p4, p5>>

\* update_previous_frames keeping the first frame in p2 instead of shifting
update_previous_frames_stale(ch) ==
    /\ p5' = p4
    /\ p4' = p3
    /\ p2' = IF p2 = None THEN p1 ELSE p2
    /\ p1' = ch
    /\ UNCHANGED p3

\* update_previous_frames(ch)
update_previous_frames(ch) ==
    /\ p5' = p4
    /\ p4' = p3
    /\ p2' = p1
    /\ p1' = ch
    /\ UNCHANGED p3

\* find_contours(imgray): raw is the list cv2.findContours returns for the
\* thresholded raster, each entry with its centroid and cv2.contourArea
find_contours ==
    /\ (pc = "ready" /\ ingested = 0) \/ pc = "featured"
    /\ ingested < MaxFrames
    /\ \E raw \in SeqsUpTo(Centroids \X AreaSamples,
                           Min(MaxContours, MaxObjects - nobj)) :
         LET big == SelectSeq(raw, LAMBDA r : r[2] > AreaThreshold)
             n == Len(big)
         IN /\ nobj + n <= MaxObjects
            /\ heap' = [h \in 1..(nobj + n) |->
                          IF h <= nobj THEN heap[h]
                          ELSE [centroid |-> big[h - nobj][1],
                                contour |-> Interior(big[h - nobj][1]),
                                id |-> NoId, color |-> NoColor,
                                contour_pixels |-> NoPixels]]
            /\ nobj' = nobj + n
            /\ update_previous_frames(
                   [num |-> ingested + 1,
                    contour_list |-> [k \in 1..n |-> nobj + k]])
    /\ ingested' = ingested + 1
    /\ pc' = "extracted"
    /\ UNCHANGED <<image, ch_dict, id_list, frame_num, issued, queue, index_list,
                   retired>>
    /\ UNCHANGED projvars

\* first_frame_initialize: every contour of p1 is a new coronal hole
first_frame_initialize ==
    /\ pc = "extracted"
    /\ p2 = None
    /\ \E colours \in [1..Len(p1.contour_list) -> generate_ch_color] :
         LET db == add_new_all(TheDb, p1.contour_list, colours)
         IN /\ heap' = db.heap
            /\ ch_dict' = db.ch_dict
            /\ id_list' = db.id_list
            /\ issued' = db.issued
            /\ retired' = retired \cup (db.id_list \ IdsOf(db.heap, p1))
    /\ queue' = <<>>
    /\ index_list' = [i \in 1..Len(p1.contour_list) |-> i]
    /\ pc' = "ready"
    /\ UNCHANGED <<image, nobj, frame_num, p1, p2, p3, p4, p5, ingested>>
    /\ UNCHANGED projvars

\* match_coronal_holes
match_coronal_holes ==
    /\ pc = "extracted"
    /\ p2 # None
    /\ IF compute_distance_faults(p1, p2)
       THEN /\ pc' = "fault"
            /\ UNCHANGED <<heap, ch_dict, id_list, issued, queue, index_list, retired>>
       ELSE LET q == priority_queue_remove_duplicates(heap, p1, p2)
                h1 == set_matches(heap, p1, p2, q)
                idx == unmatched_indices(Len(p1.contour_list), q)
                chs == [k \in 1..Len(idx) |-> p1.contour_list[idx[k]]]
            IN \E colours \in [1..Len(idx) -> generate_ch_color] :
                 LET db == add_new_all([TheDb EXCEPT !.heap = h1], chs, colours)
                 IN /\ heap' = db.heap
                    /\ ch_dict' = db.ch_dict
                    /\ id_list' = db.id_list
                    /\ issued' = db.issued
                    /\ retired' = retired \cup (db.id_list \ IdsOf(db.heap, p1))
                    /\ queue' = q
                    /\ index_list' = idx
                    /\ pc' = "ready"
    /\ UNCHANGED <<image, nobj, frame_num, p1, p2, p3, p4, p5, ingested>>
    /\ UNCHANGED projvars

\* drawContours that leaves pixels already painted by an earlier contour
drawContours_keep_first(img, contour, color) ==
    [px \in DOMAIN img |->
        IF px \in contour /\ img[px] = Background THEN color ELSE img[px]]

\* cv2.drawContours(image, [c.contour], 0, c.color, cv2.FILLED)
drawContours(img, contour, color) ==
    [px \in DOMAIN img |-> IF px \in contour THEN color ELSE img[px]]

\* for c in self.p1.contour_list: drawContours(...)
RECURSIVE draw_all(_, _, _)
draw_all(img, h, chs) ==
    IF chs = <<>> THEN img
    ELSE draw_all(drawContours(img, h[Head(chs)].contour, h[Head(chs)].color),
                  h, Tail(chs))

\* fill_contours: white canvas, every p1 contour filled in its color, in
\* list order
fill_contours ==
    /\ pc = "ready"
    /\ ingested > 0
    /\ image' = draw_all([px \in Canvas |-> Background], heap, p1.contour_list)
    /\ pc' = "filled"
    /\ UNCHANGED <<heap, nobj, ch_dict, id_list, frame_num, p1, p2, p3, p4, p5,
                   ingested, issued, queue, index_list, retired>>
    /\ UNCHANGED projvars

\* np.where(np.all(rbg_image == c.color, axis=-1)) restricted to the pixels
\* the contour itself encloses
color_pixels_inside(img, c) ==
    {px \in DOMAIN img : img[px] = c.color /\ px \in c.contour}

\* np.where(np.all(rbg_image == c.color, axis=-1))
color_pixels(img, c) == {px \in DOMAIN img : img[px] = c.color}

\* update_coronal_hole_features(rbg_image): the pixel membership of every
\* p1 contour, from which the other features are derived
update_coronal_hole_features ==
    /\ pc = "filled"
    /\ heap' = [h \in DOMAIN heap |->
                  IF h \in Range(p1.contour_list)
                  THEN [heap[h] EXCEPT !.contour_pixels = color_pixels(image, heap[h])]
                  ELSE heap[h]]
    /\ pc' = "featured"
    /\ UNCHANGED <<image, nobj, ch_dict, id_list, frame_num, p1, p2, p3, p4, p5,
                   ingested, issued, queue, index_list, retired>>
    /\ UNCHANGED projvars

Next ==
    \/ find_contours
    \/ first_frame_initialize
    \/ match_coronal_holes
    \/ fill_contours
    \/ update_coronal_hole_features

Spec == Init /\ [][Next]_vars

\* ------------------------------------------------- projector specification
\* rasters with values 0 and 255 and at most MaxLit non-zero pixels
Rasters ==
    {[px \in Pixels |-> IF px \in L THEN 255 ELSE 0] :
        L \in {M \in SUBSET Pixels : Cardinality(M) <= MaxLit}}

InitProj ==
    /\ heap = <<>>
    /\ image = [px \in Canvas |-> Background]
    /\ nobj = 0
    /\ ch_dict = <<>>
    /\ id_list = {}
    /\ frame_num = 0
    /\ p1 = None /\ p2 = None /\ p3 = None /\ p4 = None /\ p5 = None
    /\ pc = "ready"
    /\ ingested = 0
    /\ issued = <<>>
    /\ queue = <<>>
    /\ index_list = <<>>
    /\ retired = {}
    /\ raster \in Rasters
    /\ projected = [px \in Pixels |-> 0]
    /\ restored = [px \in Pixels |-> 0]
    /\ used = {}
    /\ ppc = "input"

\* map_new_polar_projection(gray_image)
map_new_polar_projection ==
    /\ ppc = "input"
    /\ used' = {index_new[px] : px \in Pixels}
    /\ IF all_in_range(index_new)
       THEN projected' = resample(raster, index_new) /\ ppc' = "projected"
       ELSE projected' = projected /\ ppc' = "fault"
    /\ UNCHANGED <<raster, restored>>
    /\ UNCHANGED trackervars

\* map_back_to_long_lat_rbg(input_image), every channel treated alike
map_back_to_long_lat_rbg ==
    /\ ppc = "projected"
    /\ used' = {index_back[px] : px \in Pixels}
    /\ IF all_in_range(index_back)
       THEN restored' = resample(projected, index_back) /\ ppc' = "restored"
       ELSE restored' = restored /\ ppc' = "fault"
    /\ UNCHANGED <<raster, projected>>
    /\ UNCHANGED trackervars

NextProj == map_new_polar_projection \/ map_back_to_long_lat_rbg

SpecProj == InitProj /\ [][NextProj]_vars

\* ------------------------------------------------------------- properties
\* identity assignment for the newest frame has completed
Processed == pc = "ready" /\ ingested > 0
\* the newest frame went through match_coronal_holes, which completed
Matched == pc = "ready" /\ p2 # None

Contours(f) == Range(f.contour_list)
Holder(k) == CASE k = 1 -> p1 [] k = 2 -> p2 [] k = 3 -> p3 [] k = 4 -> p4 [] k = 5 -> p5

\* C1: the ids issued by add_new_coronal_hole are, in call order, 0, 1, 2,
\* ..., M-1 (strictly increasing from 0, none twice), and M is at most the
\* number of contours seen.
C1_IdentityMonotonic ==
    /\ \A k \in 1..Len(issued) : issued[k] = k - 1
    /\ Len(issued) <= nobj

\* ids were issued in two passes and some contour was matched instead
C1_Witness == ingested >= 2 /\ Len(issued) >= 2 /\ Len(issued) < nobj /\ pc = "ready"

\* C2: no two surviving pairs of a matching pass share the same old_index.
C2_NoDuplicateClaims ==
    \A i, j \in 1..Len(queue) : i # j => queue[i][2] # queue[j][2]

\* a pass in which a candidate pair was removed as a duplicate
C2_Witness == Matched /\ Len(queue) >= 1 /\ Len(queue) < Len(p1.contour_list)

\* C3: for every claimed old_index the surviving pair is a candidate (its
\* old_index is the nearest column of its row) and its distance is the
\* smallest among all p1 rows whose nearest p2 column is that old_index.
C3_GreedyCorrect ==
    Matched =>
        LET d == compute_distance(heap, p1, p2)
            cols == argmin_axis1(d)
        IN \A k \in 1..Len(queue) :
             /\ cols[queue[k][1]] = queue[k][2]
             /\ \A r \in 1..Len(d) :
                   cols[r] = queue[k][2] => d[queue[k][1]][queue[k][2]] <= d[r][queue[k][2]]

\* a surviving pair displaced a strictly farther candidate of lower index
C3_Witness ==
    /\ Matched
    /\ LET d == compute_distance(heap, p1, p2)
           cols == argmin_axis1(d)
       IN \E k \in 1..Len(queue) : \E r \in 1..Len(d) :
             /\ r < queue[k][1]
             /\ cols[r] = queue[k][2]
             /\ d[r][queue[k][2]] > d[queue[k][1]][queue[k][2]]

\* C4: once k frames have been ingested, p_k is the k-th most recent frame.
C4_HistoryWindow ==
    \A k \in 1..5 : ingested >= k => Holder(k).num = ingested - k + 1

\* C5: after processing, the registry entry of every id present in p1 is
\* the p1 contour itself.
C5_RegistryIsLatestSighting ==
    Processed =>
        \A c \in Contours(p1) :
            /\ heap[c].id \in DOMAIN ch_dict
            /\ ch_dict[heap[c].id] = c

\* C6: a matching pass with an empty p1 or p2 does not fault; it keeps no
\* pair and every p1 contour is new.
C6_EmptyFrameNoFault ==
    (p2 # None /\ pc # "extracted" /\ compute_distance_faults(p1, p2)) =>
        /\ pc = "ready"
        /\ queue = <<>>
        /\ index_list = [i \in 1..Len(p1.contour_list) |-> i]
        /\ \A c \in Contours(p1) : heap[c].id \in id_list /\ heap[c].color # NoColor

\* C7: after processing, every p1 contour has an id and a color, and the
\* matched new indices and the indices given to add_new_coronal_hole
\* partition the index set of p1.
C7_AllAssigned ==
    Processed =>
        LET n == Len(p1.contour_list)
            matched == {queue[k][1] : k \in 1..Len(queue)}
        IN /\ \A c \in Contours(p1) :
                 heap[c].id \in id_list /\ heap[c].color \in generate_ch_color
           /\ matched \cup Range(index_list) = 1..n
           /\ matched \cap Range(index_list) = {}
           /\ Len(queue) + Len(index_list) = n

\* one contour of the pass was matched and another was new
C7_Witness == Matched /\ Len(queue) >= 1 /\ Len(index_list) >= 1

\* C8: frame_num equals the number of frames ingested and processed.
C8_FrameCounter == Processed => frame_num = ingested

\* C9: with one contour in p2 (id i), exactly one p1 contour gets id i and
\* its color, it is a closest one, and the other p1 contours get, in index
\* order, the registry sizes at the moments they are added, with a
\* generated color.
C9_SingleOldContour ==
    (Matched /\ Len(p2.contour_list) = 1) =>
        LET old == heap[p2.contour_list[1]]
            n == Len(p1.contour_list)
            d == compute_distance(heap, p1, p2)
            ch(a) == heap[p1.contour_list[a]]
            hit == {a \in 1..n : ch(a).id = old.id}
            before == Cardinality(id_list) - (n - 1)
        IN /\ Cardinality(hit) = 1
           /\ \A a \in hit :
                 /\ ch(a).color = old.color
                 /\ \A r \in 1..n : d[a][1] <= d[r][1]
           /\ \A a \in (1..n) \ hit :
                 /\ ch(a).id = before + Cardinality({b \in (1..n) \ hit : b < a})
                 /\ ch(a).color \in generate_ch_color

\* the second of two p1 contours was strictly closer and took the id
C9_Witness ==
    /\ Matched
    /\ Len(p2.contour_list) = 1
    /\ Len(p1.contour_list) = 2
    /\ heap[p1.contour_list[2]].id = heap[p2.contour_list[1]].id
    /\ LET d == compute_distance(heap, p1, p2) IN d[2][1] < d[1][1]

\* C10: the keys of ch_dict are id_list, their number is the number of
\* add_new_coronal_hole calls, and no key is ever removed.
C10_RegistryAppendOnly ==
    /\ [](DOMAIN ch_dict = id_list /\ Cardinality(DOMAIN ch_dict) = Len(issued))
    /\ [][DOMAIN ch_dict \subseteq DOMAIN ch_dict' /\ id_list \subseteq id_list']_vars

\* the registry grew in a second pass
C10_Witness == ingested >= 2 /\ Cardinality(DOMAIN ch_dict) >= 3 /\ pc = "ready"

\* the step taken by find_contours
FindContoursStep == pc \in {"ready", "featured"} /\ pc' = "extracted"

\* C11 (as claimed): find_contours leaves the history p1..p5, the registry
\* and the id set unchanged.
C11_FindContoursPure ==
    [][FindContoursStep => UNCHANGED <<p1, p2, p3, p4, p5, ch_dict, id_list>>]_vars

\* C11 (amended): find_contours leaves the registry, the id set and every
\* existing Contour unchanged, and pushes the extracted frame into the
\* history: p1 is the new frame, p2 the former p1, p4 the former p3 and p5
\* the former p4.
C11_FindContoursEffect ==
    [][FindContoursStep =>
          /\ UNCHANGED <<ch_dict, id_list, p3>>
          /\ \A h \in DOMAIN heap : heap'[h] = heap[h]
          /\ p1'.num = ingested'
          /\ p2' = p1 /\ p4' = p3 /\ p5' = p4]_vars

\* a second frame has been extracted while the first sits in p2
C11_Witness == pc = "extracted" /\ p2 # None /\ Len(p1.contour_list) >= 1

\* the heap with every id and color wiped: only the centroids are left
CentroidsOnly(h) ==
    [k \in DOMAIN h |-> [h[k] EXCEPT !.id = NoId, !.color = <<0, 0, 0>>]]

C18_NoSecondChoice ==
    Matched =>
        LET d == compute_distance(heap, p1, p2)
            cols == argmin_axis1(d)
            matched == {queue[k][1] : k \in 1..Len(queue)}
            before == Cardinality(id_list) - Len(index_list)
        IN /\ \A k \in 1..Len(queue) : cols[queue[k][1]] = queue[k][2]
           /\ Len(queue) = Cardinality({cols[r] : r \in 1..Len(d)})
           /\ \A r \in (1..Len(d)) \ matched :
                 /\ heap[p1.contour_list[r]].id >= before
                 /\ heap[p1.contour_list[r]].id \notin IdsOf(heap, p2)

\* two p1 rows wanted the same p2 contour while another p2 contour stayed
\* unclaimed: the displaced row is new
C18_Witness ==
    /\ Matched
    /\ Len(p1.contour_list) = 2
    /\ Len(p2.contour_list) = 2
    /\ Len(queue) = 1

\* C19: after processing, no two contours of p1 share an id.
C19_DistinctIds ==
    Processed =>
        \A i, j \in 1..Len(p1.contour_list) :
            i # j => heap[p1.contour_list[i]].id # heap[p1.contour_list[j]].id

\* p1 holds an inherited id next to a freshly issued one
C19_Witness ==
    Matched /\ Len(p1.contour_list) = 2 /\ Len(queue) = 1 /\ Len(index_list) = 1

\* C20: an issued id that was absent from p1 after some frame was processed
\* is absent from p1 ever after.
C20_NoComeback == IdsOf(heap, p1) \cap retired = {}

\* a hole vanished for a frame and a contour then appeared at the very
\* place its registry entry has
C20_Witness ==
    /\ Processed
    /\ ingested = 3
    /\ \E i \in retired : \E c \in Contours(p1) :
          heap[c].centroid = heap[ch_dict[i]].centroid

\* the p1 contours whose interior covers pixel px, as list positions
Covering(px) == {i \in 1..Len(p1.contour_list) : px \in heap[p1.contour_list[i]].contour}
Last(S) == CHOOSE i \in S : \A j \in S : j <= i

\* C12: two p1 contours with different ids and the same color get the same
\* pixel membership, every canvas pixel of that color.
C12_CollisionMerges ==
    pc = "featured" =>
        \A a, b \in Contours(p1) :
            (heap[a].id # heap[b].id /\ heap[a].color = heap[b].color) =>
                /\ heap[a].contour_pixels = heap[b].contour_pixels
                /\ heap[a].contour_pixels = {px \in Canvas : image[px] = heap[a].color}

\* two holes with colliding colors and different interiors, each credited
\* with the pixels of both
C12_Witness ==
    /\ pc = "featured"
    /\ \E a, b \in Contours(p1) :
          /\ heap[a].id # heap[b].id
          /\ heap[a].color = heap[b].color
          /\ ~ (heap[a].contour \subseteq heap[b].contour)
          /\ ~ (heap[b].contour \subseteq heap[a].contour)
          /\ heap[a].contour_pixels = heap[a].contour \cup heap[b].contour

\* C13: on the filled canvas a pixel covered by p1 interiors has the color
\* of the last covering contour in list order and an uncovered pixel is
\* white; with pairwise distinct colors the pixel is in the membership of
\* that last contour only.
C13_LastDrawnWins ==
    /\ pc \in {"filled", "featured"} =>
          \A px \in Canvas :
              image[px] = IF Covering(px) = {} THEN Background
                          ELSE heap[p1.contour_list[Last(Covering(px))]].color
    /\ (/\ pc = "featured"
        /\ \A i, j \in 1..Len(p1.contour_list) :
              i # j => heap[p1.contour_list[i]].color # heap[p1.contour_list[j]].color) =>
          \A px \in Canvas : \A i \in 1..Len(p1.contour_list) :
              px \in heap[p1.contour_list[i]].contour_pixels
                  <=> (Covering(px) # {} /\ i = Last(Covering(px)))

\* two contours of different colors overlap in part: the shared pixel went
\* to the later one, the earlier one kept the rest
C13_Witness ==
    /\ pc = "featured"
    /\ Len(p1.contour_list) = 2
    /\ LET a == heap[p1.contour_list[1]]
           b == heap[p1.contour_list[2]]
       IN /\ a.color # b.color
          /\ a.contour \cap b.contour # {}
          /\ a.contour_pixels # {}
          /\ a.contour_pixels # a.contour
          /\ b.contour_pixels = b.contour

\* the colors the contours carry
AssignedColors == {heap[h].color : h \in DOMAIN heap} \ {NoColor}
\* the channel values among the sampled color triples
SampledChannels == {c[k] : c \in CandidateColors, k \in 1..3}

\* C14 (as claimed): every value in 0..255 is a possible channel value of a
\* generated color (stated for the sampled values).
C14_FullRange ==
    issued # <<>> =>
        \A v \in SampledChannels \cap (0..255) :
            \E c \in generate_ch_color : \E k \in 1..3 : c[k] = v

\* C14 (amended): every channel of a generated color lies in 0..254; 255 is
\* never a channel value.
C14_RangeExclusive ==
    \A c \in AssignedColors : \A k \in 1..3 : c[k] \in 0..254

\* both ends of the range were generated: a channel 0 and a channel 254
C14_Witness ==
    /\ \E c \in AssignedColors : c[1] = 0
    /\ \E c \in AssignedColors : c[1] = 254

\* C15: every index pair a projector call uses lies in 0..n_t-1 and
\* 0..n_p-1.
C15_IndicesClamped ==
    \A rc \in used : rc[1] \in 0..(n_t - 1) /\ rc[2] \in 0..(n_p - 1)

\* rows 0 and n_t-1 are the poles theta = pi and theta = 0
PoleFree(img) == \A px \in Pixels : px[1] \in {0, n_t - 1} => img[px] = 0

\* C16: for a raster with no content in the pole rows, the inverse of the
\* forward projection is the raster itself.
C16_RoundTrip ==
    (ppc = "restored" /\ PoleFree(raster)) => restored = raster

\* the frames whose contours carry an identity: p2 always, p1 once its
\* identity assignment has completed
Identified ==
    Contours(p2) \cup (IF pc \in {"extracted", "fault"} THEN {} ELSE Contours(p1))

\* C21: every contour of p1 or p2 has the color of the registry entry of its
\* id, and the color of a registry entry never changes after it was issued.
C21_ColorBoundToId ==
    /\ [](\A c \in Identified :
              /\ heap[c].id \in DOMAIN ch_dict
              /\ heap[c].color = heap[ch_dict[heap[c].id]].color)
    /\ [][\A i \in DOMAIN ch_dict :
              /\ i \in DOMAIN ch_dict'
              /\ heap'[ch_dict'[i]].color = heap[ch_dict[i]].color]_vars

\* a hole followed over three frames: its p1 contour has the color of the
\* registry entry, a contour that is in neither p1 nor p2, while another
\* hole has a different color
C21_Witness ==
    /\ Matched
    /\ ingested = 3
    /\ \E c \in Contours(p1) :
          /\ ch_dict[heap[c].id] \notin Contours(p1) \cup Contours(p2)
          /\ \E i \in DOMAIN ch_dict : heap[ch_dict[i]].color # heap[c].color

\* C22: after a matching pass over two non-empty frames at least one pair
\* survives; the first surviving pair is the head of the priority queue, its
\* distance is the smallest of the whole distance matrix whatever its size,
\* and its p1 contour carries the id of its p2 contour.
C22_NearestPairSurvives ==
    (Matched /\ ~ compute_distance_faults(p1, p2)) =>
        LET d == compute_distance(heap, p1, p2)
            pq == create_priority_queue(heap, p1, p2)
        IN /\ Len(queue) >= 1
           /\ queue[1] = pq[1]
           /\ \A r \in 1..Len(d) : \A c \in 1..Len(d[r]) :
                 d[queue[1][1]][queue[1][2]] <= d[r][c]
           /\ heap[p1.contour_list[queue[1][1]]].id = heap[p2.contour_list[queue[1][2]]].id

\* the two frames hold one contour each, at opposite ends of the centroid
\* range, and the p1 contour still inherited the id
C22_Witness ==
    /\ Matched
    /\ Len(p1.contour_list) = 1
    /\ Len(p2.contour_list) = 1
    /\ compute_distance(heap, p1, p2)[1][1] = MaxX * MaxX
    /\ heap[p1.contour_list[1]].id = heap[p2.contour_list[1]].id

\* C23: no generated color is the white background of fill_contours, and
\* after the feature update the pixel membership of a p1 contour holds no
\* background pixel: each of its pixels is non-white and covered by some p1
\* contour.
C23_NoBackgroundPixel ==
    /\ Background \notin generate_ch_color
    /\ pc = "featured" =>
          \A c \in Contours(p1) : \A px \in heap[c].contour_pixels :
              /\ image[px] # Background
              /\ Covering(px) # {}

\* a contour with the color nearest to white, (254, 254, 254), was given
\* its pixels while the canvas still shows background elsewhere
C23_Witness ==
    /\ pc = "featured"
    /\ \E px \in Canvas : image[px] = Background
    /\ \E c \in Contours(p1) :
          /\ heap[c].color = <<254, 254, 254>>
          /\ heap[c].contour_pixels # {}

\* the step taken by match_coronal_holes
MatchStep == pc = "extracted" /\ p2 # None

\* C24: a matching pass leaves the history holders, every Contour outside
\* p1 (so id and color of every p2 contour, and contour and color of every
\* registry entry) and every existing registry entry as they were; the
\* registry only gains entries.
C24_MatchWritesP1Only ==
    [][MatchStep =>
          /\ UNCHANGED <<p1, p2, p3, p4, p5>>
          /\ \A c \in Contours(p2) :
                heap'[c].id = heap[c].id /\ heap'[c].color = heap[c].color
          /\ \A h \in (DOMAIN heap) \ Contours(p1) : heap'[h] = heap[h]
          /\ \A i \in DOMAIN ch_dict :
                /\ i \in DOMAIN ch_dict'
                /\ ch_dict'[i] = ch_dict[i]
                /\ heap'[ch_dict[i]].contour = heap[ch_dict[i]].contour
                /\ heap'[ch_dict[i]].color = heap[ch_dict[i]].color]_vars

\* a third-frame pass that matched one p1 contour and registered another
\* while the registry already held a hole seen in neither p1 nor p2
C24_Witness ==
    /\ Matched
    /\ ingested = 3
    /\ Len(queue) >= 1
    /\ Len(index_list) >= 1
    /\ \E i \in DOMAIN ch_dict : ch_dict[i] \notin Contours(p1) \cup Contours(p2)

====
